---- MODULE Spec2Model ----
(***************************************************************************)
(* State-machine model of the crowdfunding Anchor program                  *)
(* (programs/crowdfunding/src/lib.rs): the Campaign account, the three     *)
(* instructions create / withdraw / donate together with the account       *)
(* constraints of their Accounts structs, and the lamport balances they    *)
(* move.  u64 is scaled down to U64Bits bits; a string is the sequence of  *)
(* its runs of equal Unicode code points, and its len() is the byte length *)
(* of its UTF-8 encoding.                                                  *)
(***************************************************************************)
EXTENDS Integers, Sequences, FiniteSets, TLC

\* ------------------------------------------------------------------ bounds
\* width of the scaled-down u64
U64Bits == 5
\* lamports every wallet holds initially
InitLamports == 5
\* largest amount argument tried by donate / withdraw
MaxAmount == 3
\* rent.minimum_balance(data_len) of the Campaign account at genesis
GenesisRent == 2

\* ------------------------------------------------------- program constants
MaxNameLen == 50
MaxDescriptionLen == 100

\* ------------------------------------------------------------------- types
Users == {"U1", "U2"}
\* Pubkey::default(), the admin of a Campaign that was never written
DefaultKey == "default"

MaxU64 == 2 ^ U64Bits - 1

\* the values the Rent sysvar can take for the Campaign account's footprint
RentValues == {GenesisRent, GenesisRent + 1}

\* char::len_utf8
len_utf8(ch) ==
  IF ch < 128 THEN 1 ELSE IF ch < 2048 THEN 2 ELSE IF ch < 65536 THEN 3 ELSE 4

\* a string is kept as its runs: <<[ch |-> c1, n |-> k1], ...>> is k1 times the
\* character c1, then k2 times c2, ...
\* String::len(): the length in bytes of the UTF-8 encoding
RECURSIVE len(_)
len(s) == IF s = <<>> THEN 0 ELSE Head(s).n * len_utf8(Head(s).ch) + len(Tail(s))

\* the number of characters of a string (s.chars().count())
RECURSIVE chars_count(_)
chars_count(s) == IF s = <<>> THEN 0 ELSE Head(s).n + chars_count(Tail(s))

\* the string of n copies of the character ch
Repeat(n, ch) == IF n = 0 THEN <<>> ELSE << [ch |-> ch, n |-> n] >>

\* names and descriptions offered to create, built from 'a' (97, one byte),
\* e-acute (233, two bytes) and the euro sign (8364, three bytes)
NameInputs ==
  { Repeat(MaxNameLen, 97), Repeat(MaxNameLen + 1, 97),
    Repeat(MaxNameLen \div 2, 233), Repeat(MaxNameLen \div 2 + 1, 233) }
DescriptionInputs ==
  { Repeat(1, 8364), Repeat(MaxDescriptionLen, 97), Repeat(MaxDescriptionLen + 1, 97) }

Amounts == 0..MaxAmount

\* ------------------------------------------------------------------- state
VARIABLES
  campaign,          \* PDA(user) -> the Campaign account's data (exists = initialised)
  campaign_lamports, \* PDA(user) -> lamports held by the Campaign account
  user_lamports,     \* user -> lamports of the user's wallet
  rent,              \* Rent sysvar: minimum_balance of the Campaign account
  net_donated,       \* history: PDA -> total of the successful donates minus
                     \* total of the successful withdraws since create
  withdrew,          \* history: PDA -> whether a withdraw of a positive amount
                     \* succeeded since create
  last,              \* history: the last instruction processed, its result and
                     \* the source line it returned from
  trip               \* history: the successful donate just processed (campaign,
                     \* amount, and amount_donated / lamports before it), and
                     \* whether a withdraw of that amount followed it at once

vars ==
  <<campaign, campaign_lamports, user_lamports, rent, net_donated, withdrew, last, trip>>

\* no donate was just processed
NoTrip ==
  [stage |-> "none", pda |-> DefaultKey, amount |-> 0, amount_donated |-> 0,
   lamports |-> 0]

\* #[derive(Default)] Campaign; exists is the account discriminator being set
DefaultCampaign ==
  [exists |-> FALSE, admin |-> DefaultKey, name |-> <<>>, description |-> <<>>,
   amount_donated |-> 0]

\* ------------------------------------------------------------- u64 helpers
\* u64 arithmetic as the build compiles it: with overflow-checks the
\* operation panics when the exact result leaves 0..MaxU64, without them it wraps
wrap(x) == x % (MaxU64 + 1)
overflows(x) == x < 0 \/ x > MaxU64

\* ------------------------------------------------------------ instructions
\* the outcome of an instruction handler: err = "Ok" or the error returned,
\* site = the source line of the return, and the accounts as the handler left them
Outcome(err, site, c, c_lamports, u_lamports) ==
  [err |-> err, site |-> site, campaign |-> c,
   campaign_lamports |-> c_lamports, user_lamports |-> u_lamports]

\* create with the checks of lines 12-14 and 15-17 in the other order
create_description_first(c, user_key, name, description) ==
  IF len(description) > MaxDescriptionLen
    THEN [err |-> "DescriptionTooLong", site |-> 16, campaign |-> c]
  ELSE IF len(name) > MaxNameLen
    THEN [err |-> "NameTooLong", site |-> 13, campaign |-> c]
  ELSE [err |-> "Ok", site |-> 25,
        campaign |-> [c EXCEPT !.admin = user_key, !.name = name,
                               !.description = description, !.amount_donated = 0]]

\* create without lines 12-14: the name is stored whatever its length
create_no_name_check(c, user_key, name, description) ==
  IF len(description) > MaxDescriptionLen
    THEN [err |-> "DescriptionTooLong", site |-> 16, campaign |-> c]
  ELSE [err |-> "Ok", site |-> 25,
        campaign |-> [c EXCEPT !.admin = user_key, !.name = name,
                               !.description = description, !.amount_donated = 0]]

\* fn create: c is the freshly allocated account, user_key the signer
create(c, user_key, name, description) ==
  IF len(name) > MaxNameLen THEN [err |-> "NameTooLong", site |-> 13, campaign |-> c]
  ELSE IF len(description) > MaxDescriptionLen
    THEN [err |-> "DescriptionTooLong", site |-> 16, campaign |-> c]
  ELSE [err |-> "Ok", site |-> 25,
        campaign |-> [c EXCEPT !.admin = user_key, !.name = name,
                               !.description = description, !.amount_donated = 0]]

\* withdraw without line 49: amount_donated is not decremented
withdraw_keeps_amount_donated(c, c_lamports, u_lamports, user_key, amount, rent_exempt_balance, checks) ==
  IF c.admin # user_key
    THEN Outcome("InvalidAccountData", 33, c, c_lamports, u_lamports)
  ELSE IF c.amount_donated < amount
    THEN Outcome("InsufficientFunds", 40, c, c_lamports, u_lamports)
  ELSE IF wrap(c_lamports - amount) < rent_exempt_balance
    THEN Outcome("InsufficientFunds", 44, c, c_lamports, u_lamports)
  ELSE Outcome("Ok", 51, c, wrap(c_lamports - amount), wrap(u_lamports + amount))

\* withdraw without lines 32-34: any signer may withdraw
withdraw_no_admin_check(c, c_lamports, u_lamports, user_key, amount, rent_exempt_balance, checks) ==
  IF c.amount_donated < amount
    THEN Outcome("InsufficientFunds", 40, c, c_lamports, u_lamports)
  ELSE IF wrap(c_lamports - amount) < rent_exempt_balance
    THEN Outcome("InsufficientFunds", 44, c, c_lamports, u_lamports)
  ELSE Outcome("Ok", 51,
               [c EXCEPT !.amount_donated = wrap(c.amount_donated - amount)],
               wrap(c_lamports - amount), wrap(u_lamports + amount))

\* withdraw without lines 39-41: only the reserve check guards the balance
withdraw_no_donated_check(c, c_lamports, u_lamports, user_key, amount, rent_exempt_balance, checks) ==
  IF c.admin # user_key
    THEN Outcome("InvalidAccountData", 33, c, c_lamports, u_lamports)
  ELSE IF checks /\ overflows(c_lamports - amount)
    THEN Outcome("Panic", 43, c, c_lamports, u_lamports)
  ELSE IF wrap(c_lamports - amount) < rent_exempt_balance
    THEN Outcome("InsufficientFunds", 44, c, c_lamports, u_lamports)
  ELSE IF checks /\ overflows(c.amount_donated - amount)
    THEN Outcome("Panic", 49, c, c_lamports, u_lamports)
  ELSE Outcome("Ok", 51,
               [c EXCEPT !.amount_donated = wrap(c.amount_donated - amount)],
               wrap(c_lamports - amount), wrap(u_lamports + amount))

\* withdraw without lines 43-45: the reserve is not protected
withdraw_no_reserve_check(c, c_lamports, u_lamports, user_key, amount, rent_exempt_balance, checks) ==
  IF c.admin # user_key
    THEN Outcome("InvalidAccountData", 33, c, c_lamports, u_lamports)
  ELSE IF c.amount_donated < amount
    THEN Outcome("InsufficientFunds", 40, c, c_lamports, u_lamports)
  ELSE Outcome("Ok", 51,
               [c EXCEPT !.amount_donated = wrap(c.amount_donated - amount)],
               wrap(c_lamports - amount), wrap(u_lamports + amount))

\* withdraw with the checks of lines 39-41 and 43-45 in the other order
withdraw_reserve_check_first(c, c_lamports, u_lamports, user_key, amount, rent_exempt_balance, checks) ==
  IF c.admin # user_key
    THEN Outcome("InvalidAccountData", 33, c, c_lamports, u_lamports)
  ELSE IF checks /\ overflows(c_lamports - amount)
    THEN Outcome("Panic", 43, c, c_lamports, u_lamports)
  ELSE IF wrap(c_lamports - amount) < rent_exempt_balance
    THEN Outcome("InsufficientFunds", 44, c, c_lamports, u_lamports)
  ELSE IF c.amount_donated < amount
    THEN Outcome("InsufficientFunds", 40, c, c_lamports, u_lamports)
  ELSE Outcome("Ok", 51,
               [c EXCEPT !.amount_donated = wrap(c.amount_donated - amount)],
               wrap(c_lamports - amount), wrap(u_lamports + amount))

\* withdraw without line 48: the lamports leave the campaign and reach no one
withdraw_no_credit(c, c_lamports, u_lamports, user_key, amount, rent_exempt_balance, checks) ==
  IF c.admin # user_key
    THEN Outcome("InvalidAccountData", 33, c, c_lamports, u_lamports)
  ELSE IF c.amount_donated < amount
    THEN Outcome("InsufficientFunds", 40, c, c_lamports, u_lamports)
  ELSE IF wrap(c_lamports - amount) < rent_exempt_balance
    THEN Outcome("InsufficientFunds", 44, c, c_lamports, u_lamports)
  ELSE Outcome("Ok", 51,
               [c EXCEPT !.amount_donated = wrap(c.amount_donated - amount)],
               wrap(c_lamports - amount), u_lamports)

\* fn withdraw: c the campaign data, c_lamports / u_lamports the lamports of the
\* campaign account and of the signer, rent_exempt_balance the value of line 37,
\* checks whether the build has overflow-checks
withdraw(c, c_lamports, u_lamports, user_key, amount, rent_exempt_balance, checks) ==
  IF c.admin # user_key
    THEN Outcome("InvalidAccountData", 33, c, c_lamports, u_lamports)
  ELSE IF c.amount_donated < amount
    THEN Outcome("InsufficientFunds", 40, c, c_lamports, u_lamports)
  ELSE IF checks /\ overflows(c_lamports - amount)
    THEN Outcome("Panic", 43, c, c_lamports, u_lamports)
  ELSE IF wrap(c_lamports - amount) < rent_exempt_balance
    THEN Outcome("InsufficientFunds", 44, c, c_lamports, u_lamports)
  ELSE IF checks /\ overflows(u_lamports + amount)
    THEN Outcome("Panic", 48, c, c_lamports, u_lamports)
  ELSE Outcome("Ok", 51,
               [c EXCEPT !.amount_donated = wrap(c.amount_donated - amount)],
               wrap(c_lamports - amount), wrap(u_lamports + amount))

\* system_instruction::transfer invoked by donate: fails when the source holds
\* less than amount (or the destination would leave u64)
transfer(from_lamports, to_lamports, amount) ==
  IF amount > from_lamports
    THEN [err |-> "ResultWithNegativeLamports", from |-> from_lamports, to |-> to_lamports]
  ELSE IF overflows(to_lamports + amount)
    THEN [err |-> "ArithmeticOverflow", from |-> from_lamports, to |-> to_lamports]
  ELSE [err |-> "Ok", from |-> from_lamports - amount, to |-> to_lamports + amount]

\* donate with = in place of += on line 68
donate_overwrites(c, c_lamports, u_lamports, amount, checks) ==
  LET t == transfer(u_lamports, c_lamports, amount) IN
  IF t.err # "Ok" THEN Outcome(t.err, 67, c, c_lamports, u_lamports)
  ELSE Outcome("Ok", 69, [c EXCEPT !.amount_donated = amount], t.to, t.from)

\* donate without the ? of line 67: the result of the transfer is dropped
donate_ignores_transfer_error(c, c_lamports, u_lamports, amount, checks) ==
  LET t == transfer(u_lamports, c_lamports, amount) IN
  Outcome("Ok", 69, [c EXCEPT !.amount_donated = wrap(c.amount_donated + amount)],
          t.to, t.from)

\* fn donate
donate(c, c_lamports, u_lamports, amount, checks) ==
  LET t == transfer(u_lamports, c_lamports, amount) IN
  IF t.err # "Ok" THEN Outcome(t.err, 67, c, c_lamports, u_lamports)
  ELSE IF checks /\ overflows(c.amount_donated + amount)
    THEN Outcome("Panic", 68, c, c_lamports, u_lamports)
  ELSE Outcome("Ok", 69,
               [c EXCEPT !.amount_donated = wrap(c.amount_donated + amount)],
               t.to, t.from)

\* --------------------------------------------------------------- actions
Invocation(op, err, site) ==
  [op |-> op, err |-> err, site |-> site]

Init ==
  /\ campaign = [p \in Users |-> DefaultCampaign]
  /\ campaign_lamports = [p \in Users |-> 0]
  /\ user_lamports = [u \in Users |-> InitLamports]
  /\ rent = GenesisRent
  /\ net_donated = [p \in Users |-> 0]
  /\ withdrew = [p \in Users |-> FALSE]
  /\ last = Invocation("none", "Ok", 0)
  /\ trip = NoTrip

\* the create instruction with init_if_needed in place of init on line 84: an
\* existing Campaign account is handed to fn create as it is
Create_init_if_needed(user, name, description) ==
  LET pda == user
      fresh == ~campaign[pda].exists
      refused == IF fresh /\ user_lamports[user] < rent
                   THEN "ResultWithNegativeLamports" ELSE "Ok"
      r == create([campaign[pda] EXCEPT !.exists = TRUE], user, name, description)
  IN
  IF refused # "Ok"
    THEN /\ last' = Invocation("create", refused, 84)
         /\ trip' = NoTrip
         /\ UNCHANGED <<campaign, campaign_lamports, user_lamports, rent,
                        net_donated, withdrew>>
  ELSE /\ last' = Invocation("create", r.err, r.site)
       /\ trip' = NoTrip
       /\ IF r.err = "Ok"
            THEN /\ campaign' = [campaign EXCEPT ![pda] = r.campaign]
                 /\ campaign_lamports' =
                      [campaign_lamports EXCEPT ![pda] = IF fresh THEN rent ELSE @]
                 /\ user_lamports' =
                      [user_lamports EXCEPT ![user] = IF fresh THEN @ - rent ELSE @]
                 /\ net_donated' = [net_donated EXCEPT ![pda] = 0]
                 /\ withdrew' = [withdrew EXCEPT ![pda] = FALSE]
                 /\ UNCHANGED rent
            ELSE UNCHANGED <<campaign, campaign_lamports, user_lamports, rent,
                             net_donated, withdrew>>

\* the create instruction: the init constraint of Create allocates the PDA
\* seeded by the signer and funds it from the payer with the rent-exempt
\* minimum, then fn create runs; an error rolls the whole instruction back
Create(user, name, description) ==
  LET pda == user
      refused == IF campaign[pda].exists THEN "AccountAlreadyInUse"
                 ELSE IF user_lamports[user] < rent THEN "ResultWithNegativeLamports"
                 ELSE "Ok"
      r == create([DefaultCampaign EXCEPT !.exists = TRUE], user, name, description)
  IN
  IF refused # "Ok"
    THEN /\ last' = Invocation("create", refused, 84)
         /\ trip' = NoTrip
         /\ UNCHANGED <<campaign, campaign_lamports, user_lamports, rent,
                        net_donated, withdrew>>
  ELSE /\ last' = Invocation("create", r.err, r.site)
       /\ trip' = NoTrip
       /\ IF r.err = "Ok"
            THEN /\ campaign' = [campaign EXCEPT ![pda] = r.campaign]
                 /\ campaign_lamports' = [campaign_lamports EXCEPT ![pda] = rent]
                 /\ user_lamports' = [user_lamports EXCEPT ![user] = @ - rent]
                 /\ net_donated' = [net_donated EXCEPT ![pda] = 0]
                 /\ withdrew' = [withdrew EXCEPT ![pda] = FALSE]
                 /\ UNCHANGED rent
            ELSE UNCHANGED <<campaign, campaign_lamports, user_lamports, rent,
                             net_donated, withdrew>>

\* commit the accounts an instruction on campaign pda signed by user left behind
Commit(r, pda, user) ==
  /\ campaign' = [campaign EXCEPT ![pda] = r.campaign]
  /\ campaign_lamports' = [campaign_lamports EXCEPT ![pda] = r.campaign_lamports]
  /\ user_lamports' = [user_lamports EXCEPT ![user] = r.user_lamports]

\* the withdraw instruction: Withdraw takes any initialised Campaign account
\* and any signer; the build profile (overflow-checks or not) is not in the
\* source, so both are outcomes
Withdraw(user, pda, amount) ==
  /\ campaign[pda].exists
  /\ \E r \in { withdraw(campaign[pda], campaign_lamports[pda], user_lamports[user],
                          user, amount, rent, checks) : checks \in BOOLEAN } :
     /\ last' = Invocation("withdraw", r.err, r.site)
     /\ Commit(r, pda, user)
     /\ net_donated' = [net_donated EXCEPT ![pda] = IF r.err = "Ok" THEN @ - amount ELSE @]
     /\ withdrew' = [withdrew EXCEPT ![pda] = @ \/ (r.err = "Ok" /\ amount > 0)]
     /\ trip' = IF r.err = "Ok" /\ trip.stage = "donated" /\ trip.pda = pda
                     /\ trip.amount = amount
                  THEN [trip EXCEPT !.stage = "returned"]
                  ELSE NoTrip
     /\ UNCHANGED rent

\* the donate instruction with a constraint on Donate that ties the signer to
\* campaign.admin (has_one): only the admin may donate
Donate_admin_only(user, pda, amount) ==
  /\ campaign[pda].exists
  /\ \E r \in { IF campaign[pda].admin # user
                   THEN Outcome("ConstraintHasOne", 105, campaign[pda],
                                campaign_lamports[pda], user_lamports[user])
                   ELSE donate(campaign[pda], campaign_lamports[pda],
                               user_lamports[user], amount, checks)
                 : checks \in BOOLEAN } :
     /\ last' = Invocation("donate", r.err, r.site)
     /\ Commit(r, pda, user)
     /\ net_donated' = [net_donated EXCEPT ![pda] = IF r.err = "Ok" THEN @ + amount ELSE @]
     /\ trip' = IF r.err = "Ok"
                  THEN [stage |-> "donated", pda |-> pda, amount |-> amount,
                        amount_donated |-> campaign[pda].amount_donated,
                        lamports |-> campaign_lamports[pda]]
                  ELSE NoTrip
     /\ UNCHANGED <<rent, withdrew>>

\* the donate instruction: Donate takes any initialised Campaign account and
\* any signer
Donate(user, pda, amount) ==
  /\ campaign[pda].exists
  /\ \E r \in { donate(campaign[pda], campaign_lamports[pda], user_lamports[user],
                        amount, checks) : checks \in BOOLEAN } :
     /\ last' = Invocation("donate", r.err, r.site)
     /\ Commit(r, pda, user)
     /\ net_donated' = [net_donated EXCEPT ![pda] = IF r.err = "Ok" THEN @ + amount ELSE @]
     /\ trip' = IF r.err = "Ok"
                  THEN [stage |-> "donated", pda |-> pda, amount |-> amount,
                        amount_donated |-> campaign[pda].amount_donated,
                        lamports |-> campaign_lamports[pda]]
                  ELSE NoTrip
     /\ UNCHANGED <<rent, withdrew>>

\* the cluster changes the Rent sysvar between instructions
SetRent(r) ==
  /\ r # rent
  /\ rent' = r
  /\ last' = Invocation("set_rent", "Ok", 0)
  /\ trip' = NoTrip
  /\ UNCHANGED <<campaign, campaign_lamports, user_lamports, net_donated, withdrew>>

\* one instruction, by any signer, on any campaign, with names, descriptions
\* and amounts drawn from the given sets
Instruction(names, descriptions, amounts) ==
  \/ \E user \in Users, name \in names, description \in descriptions :
       Create(user, name, description)
  \/ \E user \in Users, pda \in Users, amount \in amounts :
       Withdraw(user, pda, amount)
  \/ \E user \in Users, pda \in Users, amount \in amounts :
       Donate(user, pda, amount)

\* every amount, one name that fits and one that does not
Next ==
  Instruction({Repeat(MaxNameLen, 97), Repeat(MaxNameLen + 1, 97)},
              {Repeat(MaxDescriptionLen, 97)}, Amounts)

\* create, donate and withdraw under a fixed Rent sysvar
Spec == Init /\ [][Next]_vars

NextRent ==
  \/ Next
  \/ \E r \in RentValues : SetRent(r)

\* every name and description, one amount
NextStrings == Instruction(NameInputs, DescriptionInputs, {1})

\* create with every input string, under a fixed Rent sysvar
SpecStrings == Init /\ [][NextStrings]_vars

\* the same, with the Rent sysvar free to change between instructions
SpecRent == Init /\ [][NextRent]_vars

\* ------------------------------------------------------------ properties
\* the accounts the instructions read and write
accounts == <<campaign, campaign_lamports, user_lamports>>

\* C1: an existing campaign has 0 <= amount_donated <= held balance - minimum
\* reserve, so its held balance is never below the minimum reserve
C1_DonatedWithinBalance ==
  \A p \in Users :
    campaign[p].exists =>
      /\ campaign[p].amount_donated >= 0
      /\ campaign[p].amount_donated <= campaign_lamports[p] - rent
      /\ campaign_lamports[p] >= rent

\* a campaign that still holds donations after a successful withdraw
C1_Witness ==
  /\ last.op = "withdraw" /\ last.err = "Ok"
  /\ \E p \in Users :
       campaign[p].exists /\ withdrew[p] /\ campaign[p].amount_donated > 0

\* C2: a withdraw signed by anyone but campaign.admin fails with the
\* authorization error (ProgramError::InvalidAccountData in the code), for
\* every amount, and changes neither amount_donated nor any balance
C2_NonAdminRefused ==
  [][\A u \in Users, p \in Users, a \in Amounts :
       (last'.op = "withdraw" /\ campaign[p].admin # u /\ Withdraw(u, p, a)) =>
         (last'.err = "InvalidAccountData" /\ UNCHANGED accounts)]_vars

\* a non-admin withdraw was refused while every campaign holds donations
C2_Witness ==
  /\ last.op = "withdraw" /\ last.err = "InvalidAccountData"
  /\ \A p \in Users : campaign[p].exists /\ campaign[p].amount_donated > 0

\* C3 as stated: an admin withdraw of more than amount_donated fails with an
\* error kind other than the reserve-floor error InsufficientFunds and
\* changes no state
C3_DistinctErrorKind ==
  [][\A u \in Users, p \in Users, a \in Amounts :
       (last'.op = "withdraw" /\ campaign[p].admin = u
          /\ a > campaign[p].amount_donated /\ Withdraw(u, p, a)) =>
         (last'.err \notin {"Ok", "InsufficientFunds"} /\ UNCHANGED accounts)]_vars

\* what the code does in the case of C3: an admin withdraw of more than
\* amount_donated is refused by the donated-funds check (line 40) and changes
\* no state, but the error is ProgramError::InsufficientFunds, the kind the
\* reserve check of line 44 returns as well
C3_OverdrawRefused ==
  [][\A u \in Users, p \in Users, a \in Amounts :
       (last'.op = "withdraw" /\ campaign[p].admin = u
          /\ a > campaign[p].amount_donated /\ Withdraw(u, p, a)) =>
         (last'.err = "InsufficientFunds" /\ last'.site = 40
            /\ UNCHANGED accounts)]_vars

\* the donated-funds check refused a withdraw of a campaign holding donations
C3_Witness ==
  /\ last.op = "withdraw" /\ last.site = 40
  /\ \A p \in Users : campaign[p].exists /\ campaign[p].amount_donated > 0

\* C4: an admin withdraw with amount <= amount_donated that would leave the
\* held balance below the minimum reserve fails with InsufficientFunds and
\* changes no state
C4_ReserveFloor ==
  [][\A u \in Users, p \in Users, a \in Amounts :
       (last'.op = "withdraw" /\ campaign[p].admin = u
          /\ a <= campaign[p].amount_donated
          /\ campaign_lamports[p] - a < rent /\ Withdraw(u, p, a)) =>
         (last'.err = "InsufficientFunds" /\ last'.site = 44
            /\ UNCHANGED accounts)]_vars

\* the reserve check refused a withdraw
C4_Witness ==
  /\ last.op = "withdraw" /\ last.err = "InsufficientFunds" /\ last.site = 44

\* C5: withdraw checks authorization, then the donated-funds floor, then the
\* reserve floor, and returns from the first check that fails: a non-admin
\* asking for more than amount_donated is refused by the authorization check,
\* an admin request breaking both floors by the donated-funds check, and a
\* failing withdraw changes no state
C5_CheckOrder ==
  [][\A u \in Users, p \in Users, a \in Amounts :
       (last'.op = "withdraw" /\ Withdraw(u, p, a)) =>
         /\ (campaign[p].admin # u /\ a > campaign[p].amount_donated) =>
              (last'.err = "InvalidAccountData" /\ last'.site = 33)
         /\ (campaign[p].admin = u /\ a > campaign[p].amount_donated
               /\ campaign_lamports[p] - a < rent) =>
              (last'.err = "InsufficientFunds" /\ last'.site = 40)
         /\ (last'.err # "Ok") => UNCHANGED accounts]_vars

\* the donated-funds check refused a withdraw in a state where every admin
\* request above amount_donated also breaks the reserve floor
C5_Witness ==
  /\ last.op = "withdraw" /\ last.err = "InsufficientFunds" /\ last.site = 40
  /\ \A p \in Users :
       /\ campaign[p].exists
       /\ campaign_lamports[p] - (campaign[p].amount_donated + 1) < rent

\* C6: a successful withdraw(amount) takes exactly amount from the campaign's
\* held balance, adds exactly amount to the caller's balance and takes
\* exactly amount from amount_donated
C6_WithdrawMoves ==
  [][\A u \in Users, p \in Users, a \in Amounts :
       (last'.op = "withdraw" /\ last'.err = "Ok" /\ Withdraw(u, p, a)) =>
         /\ campaign[p].admin = u
         /\ campaign_lamports'[p] = campaign_lamports[p] - a
         /\ user_lamports'[u] = user_lamports[u] + a
         /\ campaign'[p].amount_donated = campaign[p].amount_donated - a]_vars

\* a withdraw of a positive amount succeeded
C6_Witness ==
  /\ last.op = "withdraw" /\ last.err = "Ok"
  /\ \E p \in Users : campaign[p].exists /\ withdrew[p]

\* C7: while nothing has been withdrawn from a campaign since its creation,
\* amount_donated is the sum of the amounts of the successful donates, in
\* whatever order and by whichever callers they were made
C7_DonationsAddUp ==
  \A p \in Users :
    (campaign[p].exists /\ ~withdrew[p]) =>
      campaign[p].amount_donated = net_donated[p]

\* a campaign that received several donations and no withdraw
C7_Witness ==
  /\ last.op = "donate" /\ last.err = "Ok"
  /\ \E p \in Users :
       campaign[p].exists /\ ~withdrew[p] /\ net_donated[p] > MaxAmount

\* C8 (not settled): the case of the claim is a donate whose transfer
\* succeeded and whose amount_donated + amount leaves u64.  No instruction ever
\* panicked or met a u64 overflow, and no donate a wallet can pay for can
\* overflow the accumulator: the lamports in existence fit a u64 and
\* amount_donated never exceeds the lamports the campaign holds
DonateCannotOverflow ==
  /\ last.err \notin {"Panic", "ArithmeticOverflow"}
  /\ \A u \in Users, p \in Users :
       campaign[p].amount_donated + user_lamports[u] <= MaxU64

\* C9: donate is all-or-nothing: when the caller holds less than amount the
\* transfer fails; a failed donate changes neither amount_donated nor any
\* balance; a successful one adds exactly amount to the campaign's held
\* balance and to amount_donated
C9_DonateAllOrNothing ==
  [][\A u \in Users, p \in Users, a \in Amounts :
       (last'.op = "donate" /\ Donate(u, p, a)) =>
         /\ (user_lamports[u] < a) => last'.err # "Ok"
         /\ (last'.err # "Ok") => UNCHANGED accounts
         /\ (last'.err = "Ok") =>
              /\ campaign_lamports'[p] = campaign_lamports[p] + a
              /\ campaign'[p].amount_donated = campaign[p].amount_donated + a]_vars

\* a donate failed in the transfer
C9_Witness ==
  /\ last.op = "donate" /\ last.err = "ResultWithNegativeLamports"

\* C10 as stated: with a name of at most 50 characters and a description of
\* at most 100, create on an uninitialised campaign (whose rent the caller
\* can pay) succeeds and writes admin, name, description and amount_donated = 0
C10_CreateSucceeds ==
  [][\A u \in Users, n \in NameInputs, d \in DescriptionInputs :
       (last'.op = "create" /\ ~campaign[u].exists /\ user_lamports[u] >= rent
          /\ chars_count(n) <= MaxNameLen
          /\ chars_count(d) <= MaxDescriptionLen /\ Create(u, n, d)) =>
         /\ last'.err = "Ok"
         /\ campaign'[u] = [exists |-> TRUE, admin |-> u, name |-> n,
                            description |-> d, amount_donated |-> 0]]_vars

\* what create does guarantee: with len(name) <= 50 and len(description) <= 100
\* in bytes, create on an uninitialised campaign whose rent the caller can pay
\* succeeds and writes admin, name, description and amount_donated = 0
CreateSucceedsWithinByteLimits ==
  [][\A u \in Users, n \in NameInputs, d \in DescriptionInputs :
       (last'.op = "create" /\ ~campaign[u].exists /\ user_lamports[u] >= rent
          /\ len(n) <= MaxNameLen /\ len(d) <= MaxDescriptionLen
          /\ Create(u, n, d)) =>
         /\ last'.err = "Ok"
         /\ campaign'[u] = [exists |-> TRUE, admin |-> u, name |-> n,
                            description |-> d, amount_donated |-> 0]]_vars

\* C11: whenever fn create runs (the campaign was uninitialised and the
\* caller paid its rent) with a name of more than 50 characters, it fails
\* with NameTooLong whatever the description is, also one of more than 100
\* characters, and no field of the campaign record is written
C11_NameTooLong ==
  [][\A u \in Users, n \in NameInputs, d \in DescriptionInputs :
       (last'.op = "create" /\ ~campaign[u].exists /\ user_lamports[u] >= rent
          /\ chars_count(n) > MaxNameLen /\ Create(u, n, d)) =>
         (last'.err = "NameTooLong" /\ last'.site = 13 /\ UNCHANGED accounts)]_vars

\* fn create refused a name while no campaign exists yet
C11_Witness ==
  /\ last.op = "create" /\ last.err = "NameTooLong"
  /\ \A p \in Users : ~campaign[p].exists

\* C12 as stated: whenever fn create runs with a name of at most 50
\* characters and a description of more than 100, it fails with
\* DescriptionTooLong and no field of the campaign record is written
C12_DescriptionTooLong ==
  [][\A u \in Users, n \in NameInputs, d \in DescriptionInputs :
       (last'.op = "create" /\ ~campaign[u].exists /\ user_lamports[u] >= rent
          /\ chars_count(n) <= MaxNameLen
          /\ chars_count(d) > MaxDescriptionLen /\ Create(u, n, d)) =>
         (last'.err = "DescriptionTooLong" /\ UNCHANGED accounts)]_vars

\* what create does guarantee: with len(name) <= 50 bytes and more than 100
\* bytes of description it fails with DescriptionTooLong and writes nothing
DescriptionTooLongWithinByteLimits ==
  [][\A u \in Users, n \in NameInputs, d \in DescriptionInputs :
       (last'.op = "create" /\ ~campaign[u].exists /\ user_lamports[u] >= rent
          /\ len(n) <= MaxNameLen /\ len(d) > MaxDescriptionLen
          /\ Create(u, n, d)) =>
         (last'.err = "DescriptionTooLong" /\ last'.site = 16
            /\ UNCHANGED accounts)]_vars

\* C13: a successful donate(x) immediately followed by a successful
\* withdraw(x) on the same campaign (which only its admin can make) leaves
\* amount_donated and the campaign's held balance as they were before the donate
C13_RoundTrip ==
  trip.stage = "returned" =>
    /\ campaign[trip.pda].amount_donated = trip.amount_donated
    /\ campaign_lamports[trip.pda] = trip.lamports

\* a positive donation was withdrawn at once, from a campaign that held
\* donations before
C13_Witness ==
  /\ trip.stage = "returned" /\ trip.amount > 0 /\ trip.amount_donated > 0
  /\ last.op = "withdraw" /\ last.err = "Ok"

\* C14: once a campaign exists its admin, name and description never change,
\* whatever instruction is processed and whether it succeeds or fails, so the
\* name has at most 50 characters and the description at most 100 in every
\* reachable state
C14_RecordImmutable ==
  /\ [](\A p \in Users :
          /\ chars_count(campaign[p].name) <= MaxNameLen
          /\ chars_count(campaign[p].description) <= MaxDescriptionLen)
  /\ [][\A p \in Users :
          campaign[p].exists =>
            /\ campaign'[p].admin = campaign[p].admin
            /\ campaign'[p].name = campaign[p].name
            /\ campaign'[p].description = campaign[p].description]_vars

\* a campaign with a name of 50 characters that was donated to and withdrawn from
C14_Witness ==
  /\ last.op = "withdraw" /\ last.err = "Ok"
  /\ \E p \in Users :
       /\ campaign[p].exists /\ withdrew[p]
       /\ chars_count(campaign[p].name) = MaxNameLen
       /\ campaign[p].admin = p

\* C15: a campaign is uninitialised or active; only a successful create makes
\* an uninitialised campaign active, nothing makes an active one
\* uninitialised, and a create on an active campaign is refused by the init
\* constraint and leaves admin, name, description and amount_donated as they are
C15_Lifecycle ==
  [][/\ \A p \in Users :
          /\ (~campaign[p].exists /\ campaign'[p].exists) =>
               (last'.op = "create" /\ last'.err = "Ok")
          /\ campaign[p].exists => campaign'[p].exists
     /\ \A u \in Users, n \in NameInputs, d \in DescriptionInputs :
          (last'.op = "create" /\ campaign[u].exists /\ Create(u, n, d)) =>
            /\ last'.err = "AccountAlreadyInUse"
            /\ campaign'[u] = campaign[u]
            /\ UNCHANGED accounts]_vars

\* a create was refused by init while every campaign is active and holds donations
C15_Witness ==
  /\ last.op = "create" /\ last.err = "AccountAlreadyInUse"
  /\ \A p \in Users : campaign[p].exists /\ campaign[p].amount_donated > 0

\* C16: donate asks for no authorization: on an existing campaign a donate
\* by any signer, admin or not, who holds at least amount and whose donation
\* keeps amount_donated within u64 succeeds
C16_AnyoneMayDonate ==
  [][\A u \in Users, p \in Users, a \in Amounts :
       (last'.op = "donate" /\ user_lamports[u] >= a
          /\ campaign[p].amount_donated + a <= MaxU64 /\ Donate(u, p, a)) =>
         (last'.err = "Ok" /\ campaign_lamports'[p] = campaign_lamports[p] + a)]_vars

\* a donate succeeded on the only campaign, U1's, while U1's wallet holds
\* what the creation left it: the donor was U2, who is not the admin
C16_Witness ==
  /\ last.op = "donate" /\ last.err = "Ok"
  /\ campaign["U1"].exists /\ campaign["U1"].admin = "U1"
  /\ ~campaign["U2"].exists
  /\ net_donated["U1"] > 0 /\ ~withdrew["U1"]
  /\ user_lamports["U1"] = InitLamports - GenesisRent
  /\ user_lamports["U2"] < InitLamports

\* the record and the held balance of every campaign but p are left as they are
OthersUntouched(p) ==
  \A q \in Users \ {p} :
    campaign'[q] = campaign[q] /\ campaign_lamports'[q] = campaign_lamports[q]

\* C17: an instruction on one campaign leaves the record and the held balance
\* of every other campaign unchanged, and the held balance or amount_donated
\* of a campaign decreases only in a withdraw signed by that campaign's admin
C17_OtherCampaignsUntouched ==
  [][/\ \A u \in Users, p \in Users, a \in Amounts :
          /\ (last'.op = "withdraw" /\ Withdraw(u, p, a)) => OthersUntouched(p)
          /\ (last'.op = "donate" /\ Donate(u, p, a)) => OthersUntouched(p)
     /\ \A u \in Users, n \in NameInputs, d \in DescriptionInputs :
          (last'.op = "create" /\ Create(u, n, d)) => OthersUntouched(u)
     /\ \A p \in Users :
          (campaign[p].exists
             /\ (campaign_lamports'[p] < campaign_lamports[p]
                   \/ campaign'[p].amount_donated < campaign[p].amount_donated)) =>
            \E a \in Amounts : Withdraw(campaign[p].admin, p, a)]_vars

\* two active campaigns: one was just withdrawn from, the other holds donations
C17_Witness ==
  /\ last.op = "withdraw" /\ last.err = "Ok"
  /\ \E p \in Users, q \in Users :
       /\ p # q /\ campaign[p].exists /\ campaign[q].exists
       /\ withdrew[p] /\ ~withdrew[q] /\ campaign[q].amount_donated > 0

\* C18: in every reachable state, for every amount that passes the
\* donated-funds check of a campaign (amount <= amount_donated), neither
\* lamports - amount on lines 43 and 47 nor amount_donated -= amount on line 49
\* leaves u64, because amount_donated <= lamports held; no instruction panicked
C18_NoUnderflow ==
  /\ last.err # "Panic"
  /\ \A p \in Users :
       campaign[p].exists =>
         /\ campaign[p].amount_donated <= campaign_lamports[p]
         /\ \A a \in 0..campaign[p].amount_donated :
              /\ ~overflows(campaign_lamports[p] - a)
              /\ ~overflows(campaign[p].amount_donated - a)

\* a withdraw of a positive amount went through the reserve check
C18_Witness ==
  /\ last.op = "withdraw" /\ last.site \in {44, 51}
  /\ \E p \in Users :
       campaign[p].exists /\ withdrew[p] /\ campaign[p].amount_donated > 0

\* C19: the total a campaign's admin has withdrawn never exceeds the total
\* donated to it (total donated minus total withdrawn is never negative), so
\* the lamports left in the account are at least those the creation put
\* there: the rent reserve cannot be taken out
C19_WithdrawnWithinDonated ==
  \A p \in Users :
    /\ net_donated[p] >= 0
    /\ campaign[p].exists =>
         campaign_lamports[p] - net_donated[p] >= GenesisRent

\* everything donated to a campaign was withdrawn again, the donations of
\* the other user included: the admin's wallet and the campaign together
\* hold more than the admin's wallet did initially
C19_Witness ==
  /\ last.op = "withdraw" /\ last.err = "Ok"
  /\ \E p \in Users :
       /\ campaign[p].exists /\ withdrew[p] /\ net_donated[p] = 0
       /\ user_lamports[p] + campaign_lamports[p] > InitLamports

\* C20: under a fixed Rent sysvar every admin withdraw of at most
\* amount_donated, the whole of it included, passes the reserve check and
\* succeeds: withdraw never returns from line 44
C20_ReserveCheckNeverFails ==
  /\ [](last.site # 44)
  /\ [][\A u \in Users, p \in Users, a \in Amounts :
          (last'.op = "withdraw" /\ campaign[p].admin = u
             /\ a <= campaign[p].amount_donated /\ Withdraw(u, p, a)) =>
            (last'.err = "Ok" /\ last'.site = 51)]_vars

\* the admin took the whole amount_donated: the campaign is back at its reserve
C20_Witness ==
  /\ last.op = "withdraw" /\ last.err = "Ok"
  /\ \E p \in Users :
       /\ campaign[p].exists /\ withdrew[p]
       /\ user_lamports[p] > InitLamports - rent
       /\ campaign[p].amount_donated = 0 /\ campaign_lamports[p] = rent

TypeOK ==
  /\ \A p \in Users :
       /\ campaign[p].amount_donated \in 0..MaxU64
       /\ campaign_lamports[p] \in 0..MaxU64
       /\ user_lamports[p] \in 0..MaxU64
  /\ rent \in RentValues
====
